---- MODULE Spec2Model ----
(***************************************************************************)
(* Liferay backend of Perceval (perceval/backends/core/liferay.py).        *)
(*                                                                         *)
(* The model follows one run of the generator Liferay.fetch_items and of   *)
(* the generator LiferayClient.get_entries it drives.  Every HTTP request  *)
(* is one step whose response is chosen by the remote; every record taken  *)
(* from a parsed page is one step; the consumer of the item sequence       *)
(* resumes the generator after each yielded item or stops iterating.       *)
(***************************************************************************)
EXTENDS FiniteSets, Integers, Sequences, TLC

\* ------------------------------------------------------------------------
\* Bounds of the model
\* ------------------------------------------------------------------------
MaxTotal == 3          \* largest total a count request answers
MaxPageSize == 2       \* largest max_results the client is built with,
                       \* the default apart
ScenarioUsers == 3     \* users of the group of the end-to-end scenario

\* the default max_results
MAX_RESULTS == 100

\* Values the remote draws record fields and category ids from
UserIds == {7, 8}
ScreenNames == {"alice", "bob"}
CategoryIds == {1, 2}

VARIABLES
    max_results,     \* LiferayClient.max_results
    pc,              \* position of fetch_items / get_entries
    phase,           \* the resource walk fetch_items is in: user, blog, message
    consumer,        \* the consumer of the item sequence
    error,           \* the exception that ended the run, "none" if none
    total,           \* get_entries: total
    start,           \* get_entries: start
    end,             \* get_entries: end
    queue,           \* records of the parsed page the for loop has not taken yet
    identities,      \* fetch_items: identities
    entry,           \* fetch_items: the blog loop variable, <<>> while unbound
    mbcategory_ids,  \* category ids whose messages are still to be fetched
    last,            \* the last yield: <<>> or <<[item, src, phase, overwrote]>>
    yieldLog,        \* per yielded item: the phase and the item's category
    nTaken,          \* per phase: records the for loop has taken from pages
    reqLog,          \* list requests of the current walk with their answers
    pageLog,         \* indexes in reqLog of the pages get_entries yielded
    walkDone,        \* the current get_entries generator is exhausted
    seenUsers,       \* userIds of well-formed user records of fetched pages
    calls            \* the requests of the run in the order issued: of each
                     \* walk its count request and its first list request
                     \* (the further ones are in reqLog), and the listing

vars == <<max_results, pc, phase, consumer, error, total, start, end, queue,
          identities, entry, mbcategory_ids, last, yieldLog, nTaken, reqLog,
          pageLog, walkDone, seenUsers, calls>>

\* ------------------------------------------------------------------------
\* Helpers
\* ------------------------------------------------------------------------
Min(a, b) == IF a < b THEN a ELSE b

Max(a, b) == IF a > b THEN a ELSE b

\* ceil(a / b) for a >= 0, b > 0
Ceil(a, b) == (a + b - 1) \div b

\* the empty dict
EmptyDict == [k \in {} |-> 0]

\* d with the key k removed
Without(d, k) == [x \in (DOMAIN d) \ {k} |-> d[x]]

\* an update that forgets the keys d1 had
UpdateReplace(d1, d2) == d2

\* an update that keeps the value of a key d1 already has
UpdateKeepFirst(d1, d2) == d1 @@ d2

\* d1.update(d2): the keys of d2 overwrite those of d1
Update(d1, d2) == d2 @@ d1

EmailOf(name) == IF name = "alice" THEN "a@x.com" ELSE "b@x.com"

\* ------------------------------------------------------------------------
\* The remote: records, page bodies and responses
\* ------------------------------------------------------------------------
\* keys get_identity reads from a user record
IdentityKeys == {"userId", "screenName", "emailAddress"}

\* user records the remote may hold; the last three lack a key
UserRecs ==
    LET full(u, n) == [userId |-> u, screenName |-> n,
                       emailAddress |-> EmailOf(n)]
    IN  {full(u, n) : u \in UserIds, n \in ScreenNames}
        \cup {Without(full(7, "alice"), k) : k \in IdentityKeys}

\* blog records: plain, already carrying screenName/emailAddress, or
\* without userId
BlogRecs ==
    {[entryId |-> 42, userId |-> u] : u \in UserIds}
    \cup {[entryId |-> 42, userId |-> 7, screenName |-> "stale",
           emailAddress |-> "stale@x.com"]}
    \cup {[entryId |-> 42]}

\* message records: with a userId (in the index or not, as the user phase
\* left it) or without userId
MessageRecs ==
    {[messageId |-> 43, userId |-> 7], [messageId |-> 43]}

Recs(ph) ==
    CASE ph = "user" -> UserRecs
      [] ph = "blog" -> BlogRecs
      [] OTHER -> MessageRecs

\* the pages of n records of a resource
RECURSIVE Pages(_, _)
Pages(ph, n) ==
    IF n = 0 THEN {<<>>}
    ELSE {Append(p, r) : p \in Pages(ph, n - 1), r \in Recs(ph)}

\* number of records whose index lies in the window [s, e) of tot records
ExpectedN(s, e, tot) == Max(0, Min(e, tot) - s)

Fail == [kind |-> "fail"]              \* fetch raises
Blank == [kind |-> "blank"]            \* the body is the empty text
Garbage == [kind |-> "garbage"]        \* the body is not JSON
Array(items) == [kind |-> "array", items |-> items]   \* a JSON array

\* answers to the list request [s, e): a failure, the empty text, a body that
\* is not JSON, the empty array, or the records of the window
ListResponses(ph, s, e, tot) ==
    {Fail, Blank, Garbage, Array(<<>>)}
    \cup {Array(p) : p \in Pages(ph, ExpectedN(s, e, tot))}

\* answers to a count request
CountResponses ==
    {Fail, Garbage} \cup {[kind |-> "int", value |-> n] : n \in 0..MaxTotal}

\* category listings: no category, one, or two different ones
CategoryLists ==
    {<<>>} \cup {<<[categoryId |-> c]>> : c \in CategoryIds}
    \cup {l \in {<<[categoryId |-> c], [categoryId |-> d]>> :
                    c \in CategoryIds, d \in CategoryIds} :
            l[1] # l[2]}

CategoryResponses == {Fail, Garbage} \cup {Array(l) : l \in CategoryLists}

\* number of records in a response body
NRecs(resp) == IF resp.kind = "array" THEN Len(resp.items) ELSE 0

\* ------------------------------------------------------------------------
\* Pure functions of the backend
\* ------------------------------------------------------------------------
\* Python truth value of req.text
Truthy(text) == text.kind # "blank"

\* a parse that drops the first element of the page
parse_entries_skip(raw_page) ==
    SubSeq(raw_page.items, 2, Len(raw_page.items))

\* Liferay.parse_entries: json.loads of the page, then its elements in order
parse_entries(raw_page) == raw_page.items

\* Liferay.get_identity raises KeyError when one of the keys is missing
IdentityRaises(user) == ~(IdentityKeys \subseteq DOMAIN user)

\* a get_identity that returns no identity
get_identity_none(user) == EmptyDict

get_identity(user) ==
    user.userId :> [screenName |-> user.screenName,
                    emailAddress |-> user.emailAddress]

\* an enrichment that keeps the screenName/emailAddress the record carries
EnrichKeep(rec, ids) ==
    IF rec.userId \in DOMAIN ids
    THEN rec @@ (("screenName" :> ids[rec.userId].screenName)
                 @@ ("emailAddress" :> ids[rec.userId].emailAddress))
    ELSE rec

\* an enrichment that sets empty values for an author it does not know
EnrichDefault(rec, ids) ==
    IF rec.userId \in DOMAIN ids
    THEN ("screenName" :> ids[rec.userId].screenName)
         @@ (("emailAddress" :> ids[rec.userId].emailAddress) @@ rec)
    ELSE ("screenName" :> "") @@ (("emailAddress" :> "") @@ rec)

\* the enrichment of fetch_items, for a record that has userId
Enrich(rec, ids) ==
    IF rec.userId \in DOMAIN ids
    THEN ("screenName" :> ids[rec.userId].screenName)
         @@ (("emailAddress" :> ids[rec.userId].emailAddress) @@ rec)
    ELSE rec

\* a classification that looks for messageId first
metadata_category_message_first(item) ==
    IF "messageId" \in DOMAIN item THEN "message"
    ELSE IF "entryId" \in DOMAIN item THEN "blog"
    ELSE "user"

metadata_category(item) ==
    IF "entryId" \in DOMAIN item THEN "blog"
    ELSE IF "messageId" \in DOMAIN item THEN "message"
    ELSE "user"

\* get_entries: the advance of start and end after the first request
FirstAdvance(mr, tot) == Min(mr, tot)

\* a loop condition that compares the offset alone with the total
MoreToFetchLoose(s, mr, tot) == s <= tot

\* get_entries: the condition under which another page is requested
MoreToFetch(s, mr, tot) == s + mr < tot

\* LiferayClient.__build_payload: the window the request carries
build_payload(s, e) == [start |-> s, end |-> e]

\* ------------------------------------------------------------------------
\* Initial state: the generator is created and not started
\* ------------------------------------------------------------------------
Init ==
    /\ max_results \in (1..MaxPageSize) \cup {MAX_RESULTS}
    /\ pc = "count"
    /\ phase = "user"
    /\ consumer = "waiting"
    /\ error = "none"
    /\ total = 0
    /\ start = 0
    /\ end = 0
    /\ queue = <<>>
    /\ identities = EmptyDict
    /\ entry = <<>>
    /\ mbcategory_ids = <<>>
    /\ last = <<>>
    /\ yieldLog = <<>>
    /\ nTaken = [user |-> 0, blog |-> 0, message |-> 0]
    /\ reqLog = <<>>
    /\ pageLog = <<>>
    /\ walkDone = FALSE
    /\ seenUsers = {}
    /\ calls = <<>>

\* ------------------------------------------------------------------------
\* Control flow shared by the steps
\* ------------------------------------------------------------------------
\* an exception that is recorded while the generator goes on
RaiseSwallow(exc) ==
    /\ error' = exc
    /\ UNCHANGED <<pc, consumer>>

\* an exception leaves the generator: next() returns to the consumer
Raise(exc) ==
    /\ pc' = "error"
    /\ error' = exc
    /\ consumer' = "waiting"

\* a fetch_items that lists the categories again after each category
EndPcRelist ==
    CASE phase = "user" -> "count"
      [] phase = "blog" -> "categories"
      [] OTHER -> IF Len(mbcategory_ids) > 1 THEN "categories" ELSE "done"

\* where fetch_items goes once the current get_entries is exhausted
EndPc ==
    CASE phase = "user" -> "count"
      [] phase = "blog" -> "categories"
      [] OTHER -> IF Len(mbcategory_ids) > 1 THEN "count" ELSE "done"

EndPhase ==
    CASE phase = "user" -> "blog"
      [] phase = "blog" -> "message"
      [] OTHER -> "message"

\* get_entries returns: the for loop over its pages ends
EndWalk ==
    /\ walkDone' = TRUE
    /\ pc' = EndPc
    /\ phase' = EndPhase
    /\ mbcategory_ids' =
          IF phase = "message" THEN Tail(mbcategory_ids) ELSE mbcategory_ids
    /\ consumer' = IF EndPc = "done" THEN "waiting" ELSE consumer
    /\ UNCHANGED error

\* `while entries:` after a list request answered resp, then the parse of the
\* yielded page by fetch_items
AfterFetch(resp) ==
    IF resp.kind = "fail"
    THEN /\ Raise("TransportError")
         /\ UNCHANGED <<queue, pageLog, walkDone, phase, mbcategory_ids,
                        seenUsers>>
    ELSE IF ~Truthy(resp)
    THEN /\ EndWalk
         /\ UNCHANGED <<queue, pageLog, seenUsers>>
    ELSE /\ pageLog' = Append(pageLog, Len(reqLog) + 1)
         /\ UNCHANGED <<walkDone, phase, mbcategory_ids>>
         /\ IF resp.kind = "garbage"
            THEN /\ Raise("JSONDecodeError")
                 /\ UNCHANGED <<queue, seenUsers>>
            ELSE /\ queue' = parse_entries(resp)
                 /\ pc' = "for_entries"
                 /\ seenUsers' =
                       IF phase = "user"
                       THEN seenUsers \cup
                            {resp.items[i].userId :
                               i \in {j \in 1..Len(resp.items) :
                                        ~IdentityRaises(resp.items[j])}}
                       ELSE seenUsers
                 /\ UNCHANGED <<error, consumer>>

\* the category the current walk is scoped to, 0 outside the message phase
CurrentCat == IF phase = "message" THEN Head(mbcategory_ids) ELSE 0

\* the request op of the current resource as it is issued; a category
\* listing is logged with the ids it answered
Call(op, resp) ==
    [op |-> op,
     res |-> IF op = "categories" THEN "mbcategory" ELSE phase,
     cat |-> IF op = "categories" THEN 0 ELSE CurrentCat,
     ids |-> IF op = "categories" /\ resp.kind = "array"
             THEN [i \in 1..Len(resp.items) |-> resp.items[i].categoryId]
             ELSE <<>>]

\* the identity of a well-formed user record
IdentityOf(user) ==
    [screenName |-> user.screenName, emailAddress |-> user.emailAddress]

\* indexing the user record rec replaces a different identity of its userId
Overwrites(rec) ==
    /\ phase = "user"
    /\ ~IdentityRaises(rec)
    /\ rec.userId \in DOMAIN identities
    /\ identities[rec.userId] # IdentityOf(rec)

\* the yield of fetch_items: the generator suspends
Yield(item, rec) ==
    /\ last' = <<[item |-> item, src |-> rec, phase |-> phase,
                  overwrote |-> Overwrites(rec)]>>
    /\ yieldLog' = Append(yieldLog, [phase |-> phase,
                                     category |-> metadata_category(item)])
    /\ consumer' = "waiting"
    /\ UNCHANGED <<pc, error>>

\* ------------------------------------------------------------------------
\* Steps
\* ------------------------------------------------------------------------
\* the consumer asks for the next item
NextItem ==
    /\ consumer = "waiting"
    /\ pc \notin {"done", "error"}
    /\ consumer' = "running"
    /\ UNCHANGED <<max_results, pc, phase, error, total, start, end, queue,
                   identities, entry, mbcategory_ids, last, yieldLog, nTaken,
                   reqLog, pageLog, walkDone, seenUsers, calls>>

\* the consumer stops iterating
StopIterating ==
    /\ consumer = "waiting"
    /\ pc \notin {"done", "error"}
    /\ consumer' = "stopped"
    /\ UNCHANGED <<max_results, pc, phase, error, total, start, end, queue,
                   identities, entry, mbcategory_ids, last, yieldLog, nTaken,
                   reqLog, pageLog, walkDone, seenUsers, calls>>

\* get_users / get_blogs / get_mbmessages: the count request
Count(resp) ==
    /\ consumer = "running"
    /\ pc = "count"
    /\ reqLog' = <<>>
    /\ pageLog' = <<>>
    /\ walkDone' = FALSE
    /\ calls' = Append(calls, Call("count", resp))
    /\ IF resp.kind = "fail"
       THEN Raise("TransportError") /\ UNCHANGED total
       ELSE IF resp.kind = "garbage"
       THEN Raise("ValueError") /\ UNCHANGED total
       ELSE /\ total' = resp.value
            /\ pc' = "first_list"
            /\ UNCHANGED <<error, consumer>>
    /\ UNCHANGED <<max_results, phase, start, end, queue, identities, entry,
                   mbcategory_ids, last, yieldLog, nTaken, seenUsers>>

\* get_entries up to its first `while entries:`
FirstList(resp) ==
    /\ consumer = "running"
    /\ pc = "first_list"
    /\ reqLog' = Append(reqLog, [payload |-> build_payload(0, max_results),
                                 kind |-> resp.kind, n |-> NRecs(resp)])
    /\ start' = 0 + FirstAdvance(max_results, total)
    /\ end' = max_results + FirstAdvance(max_results, total)
    /\ calls' = Append(calls, Call("list", resp))
    /\ AfterFetch(resp)
    /\ UNCHANGED <<max_results, total, identities, entry, last, yieldLog,
                   nTaken>>

\* get_entries: the request inside the loop
NextList(resp) ==
    /\ consumer = "running"
    /\ pc = "next_list"
    /\ reqLog' = Append(reqLog, [payload |-> build_payload(start, end),
                                 kind |-> resp.kind, n |-> NRecs(resp)])
    /\ start' = start + max_results
    /\ end' = end + max_results
    /\ AfterFetch(resp)
    /\ UNCHANGED <<max_results, total, identities, entry, last, yieldLog,
                   nTaken, calls>>

\* fetch_items takes the next record of the parsed page
ProcessRecord ==
    /\ consumer = "running"
    /\ pc = "for_entries"
    /\ queue # <<>>
    /\ LET rec == Head(queue) IN
       /\ queue' = Tail(queue)
       /\ nTaken' = [nTaken EXCEPT ![phase] = @ + 1]
       /\ CASE phase = "user" ->
                 /\ UNCHANGED entry
                 /\ IF IdentityRaises(rec)
                    THEN /\ Raise("KeyError")
                         /\ UNCHANGED <<identities, last, yieldLog>>
                    ELSE /\ identities' = Update(identities, get_identity(rec))
                         /\ Yield(rec, rec)
            [] phase = "blog" ->
                 /\ UNCHANGED identities
                 /\ IF "userId" \notin DOMAIN rec
                    THEN /\ entry' = <<rec>>
                         /\ Raise("KeyError")
                         /\ UNCHANGED <<last, yieldLog>>
                    ELSE /\ entry' = <<Enrich(rec, identities)>>
                         /\ Yield(Enrich(rec, identities), rec)
            [] OTHER ->
                 /\ UNCHANGED <<identities, entry>>
                 /\ IF "userId" \notin DOMAIN rec
                    THEN /\ Raise("KeyError")
                         /\ UNCHANGED <<last, yieldLog>>
                    ELSE IF entry = <<>>
                    THEN /\ Raise("UnboundLocalError")
                         /\ UNCHANGED <<last, yieldLog>>
                    ELSE Yield(entry[1], rec)
    /\ UNCHANGED <<max_results, phase, total, start, end, mbcategory_ids,
                   reqLog, pageLog, walkDone, seenUsers, calls>>

\* a get_entries that goes on to the next request while records of the
\* page are still to be taken
PageExhaustedEager ==
    /\ consumer = "running"
    /\ pc = "for_entries"
    /\ IF MoreToFetch(start, max_results, total)
       THEN /\ pc' = "next_list"
            /\ UNCHANGED <<walkDone, phase, mbcategory_ids, consumer, error>>
       ELSE EndWalk
    /\ UNCHANGED <<max_results, total, start, end, queue, identities, entry,
                   last, yieldLog, nTaken, reqLog, pageLog, seenUsers,
                   calls>>

\* the page is exhausted: get_entries resumes after its yield
PageExhausted ==
    /\ consumer = "running"
    /\ pc = "for_entries"
    /\ queue = <<>>
    /\ IF MoreToFetch(start, max_results, total)
       THEN /\ pc' = "next_list"
            /\ UNCHANGED <<walkDone, phase, mbcategory_ids, consumer, error>>
       ELSE EndWalk
    /\ UNCHANGED <<max_results, total, start, end, queue, identities, entry,
                   last, yieldLog, nTaken, reqLog, pageLog, seenUsers,
                   calls>>

\* get_mbcategory_ids: the category listing
Categories(resp) ==
    /\ consumer = "running"
    /\ pc = "categories"
    /\ calls' = Append(calls, Call("categories", resp))
    /\ IF resp.kind = "fail"
       THEN Raise("TransportError") /\ UNCHANGED mbcategory_ids
       ELSE IF resp.kind = "garbage"
       THEN Raise("JSONDecodeError") /\ UNCHANGED mbcategory_ids
       ELSE /\ mbcategory_ids' =
                  [i \in 1..Len(resp.items) |-> resp.items[i].categoryId]
            /\ pc' = IF resp.items = <<>> THEN "done" ELSE "count"
            /\ consumer' = IF resp.items = <<>> THEN "waiting" ELSE consumer
            /\ UNCHANGED error
    /\ UNCHANGED <<max_results, phase, total, start, end, queue, identities,
                   entry, last, yieldLog, nTaken, reqLog, pageLog, walkDone,
                   seenUsers>>

\* each request is guarded by the position that issues it, so that the
\* answers are drawn only where a request is made
Next ==
    \/ NextItem
    \/ StopIterating
    \/ pc = "count" /\ \E resp \in CountResponses : Count(resp)
    \/ pc = "first_list"
          /\ \E resp \in ListResponses(phase, 0, max_results, total) :
                FirstList(resp)
    \/ pc = "next_list"
          /\ \E resp \in ListResponses(phase, start, end, total) :
                NextList(resp)
    \/ ProcessRecord
    \/ PageExhausted
    \/ pc = "categories" /\ \E resp \in CategoryResponses : Categories(resp)

Spec == Init /\ [][Next]_vars

\* ------------------------------------------------------------------------
\* What the logs say about the current walk and the run
\* ------------------------------------------------------------------------
Range(f) == {f[i] : i \in DOMAIN f}

\* pages get_entries yielded that hold at least one record
NonEmptyPages == Cardinality({k \in Range(pageLog) : reqLog[k].n > 0})

RECURSIVE RecordsUpTo(_)
RecordsUpTo(k) ==
    IF k = 0 THEN 0
    ELSE RecordsUpTo(k - 1) + (IF k \in Range(pageLog) THEN reqLog[k].n ELSE 0)

\* records summed over the pages get_entries yielded
YieldedRecords == RecordsUpTo(Len(reqLog))

\* every list request was answered with exactly the records of its window
AllWindows ==
    \A k \in 1..Len(reqLog) :
        /\ reqLog[k].kind = "array"
        /\ reqLog[k].n = ExpectedN(reqLog[k].payload.start,
                                   reqLog[k].payload.end, total)

\* the request k was answered with a page of zero records
EmptyPage(k) == reqLog[k].kind \in {"blank", "array"} /\ reqLog[k].n = 0

\* items yielded in the phase ph
YieldedIn(ph) == Cardinality({i \in 1..Len(yieldLog) : yieldLog[i].phase = ph})

Rank(c) == CASE c = "user" -> 1 [] c = "blog" -> 2 [] OTHER -> 3

LastIn(ph) == last # <<>> /\ last[1].phase = ph

\* ------------------------------------------------------------------------
\* Claims
\* ------------------------------------------------------------------------
\* C1: when every list request is answered with exactly the records of its
\* window, a finished page walk has yielded ceil(total / pageSize) non-empty
\* pages and total records in all.
C1_WalkCoversTotal ==
    (walkDone /\ AllWindows) =>
        /\ NonEmptyPages = Ceil(total, max_results)
        /\ YieldedRecords = total

\* C2: in the message phase the item yielded for a message record is that
\* record, enriched from the Identity Index when its userId is known, whatever
\* the number of blog entries emitted before, zero included.
C2_MessageYieldsMessage ==
    /\ LastIn("message") => last[1].item = Enrich(last[1].src, identities)
    /\ error # "UnboundLocalError"

\* C3: when the count is 0 the walk issues no list request and yields no page.
C3_NoListRequestForZero ==
    total = 0 => (reqLog = <<>> /\ pageLog = <<>>)

\* C4: a page of zero records answered to a request at an offset below total
\* is not yielded and is the last request of the walk.
C4_EmptyPageStops ==
    \A k \in 1..Len(reqLog) :
        (reqLog[k].payload.start < total /\ EmptyPage(k)) =>
            /\ k \notin Range(pageLog)
            /\ k = Len(reqLog)
            /\ pc # "next_list"

\* C5: the k-th list request of a walk (k from 0) carries start = k * pageSize
\* and end = start + pageSize, so the starts are non-negative, strictly
\* increasing and no window is requested twice.
C5_RequestWindows ==
    /\ \A k \in 1..Len(reqLog) :
          /\ reqLog[k].payload.start = (k - 1) * max_results
          /\ reqLog[k].payload.end = reqLog[k].payload.start + max_results
          /\ reqLog[k].payload.start >= 0
    /\ \A j, k \in 1..Len(reqLog) :
          j < k => reqLog[j].payload.start < reqLog[k].payload.start

\* C5 witness: a walk with a second list request
C5_Witness == Len(reqLog) >= 2 /\ total > max_results

\* C6: a walk issues at most ceil(total / pageSize) list requests.
C6_AtMostCeilRequests == Len(reqLog) <= Ceil(total, max_results)

\* C7: when a blog or message item has been yielded, the Identity Index holds
\* every well-formed user record of the fetched user pages, and the items come
\* in the order users, blog entries, messages.
C7_IndexBeforeEntries ==
    /\ (LastIn("blog") \/ LastIn("message")) =>
          seenUsers \subseteq DOMAIN identities
    /\ \A i, j \in 1..Len(yieldLog) :
          i < j =>
            /\ Rank(yieldLog[i].phase) <= Rank(yieldLog[j].phase)
            /\ Rank(yieldLog[i].category) <= Rank(yieldLog[j].category)

\* C7 witness: a blog item yielded after users were indexed
C7_Witness == LastIn("blog") /\ seenUsers # {} /\ YieldedIn("user") > 0

\* C8: a blog item whose userId is in the Identity Index carries the index's
\* screenName and emailAddress, also over values the record had, and keeps
\* every other field.
C8_KnownAuthorEnriched ==
    (LastIn("blog") /\ last[1].src.userId \in DOMAIN identities) =>
        LET item == last[1].item
            src == last[1].src
            own == {"screenName", "emailAddress"}
        IN  /\ item.screenName = identities[src.userId].screenName
            /\ item.emailAddress = identities[src.userId].emailAddress
            /\ DOMAIN item = DOMAIN src \cup own
            /\ \A k \in DOMAIN src \ own : item[k] = src[k]

\* C8 witness: a blog record that carried a screenName, by an indexed author
C8_Witness ==
    /\ LastIn("blog")
    /\ last[1].src.userId \in DOMAIN identities
    /\ "screenName" \in DOMAIN last[1].src

\* C9: a blog record whose userId is not in the Identity Index is yielded as
\* parsed.
C9_UnknownAuthorUnchanged ==
    (LastIn("blog") /\ last[1].src.userId \notin DOMAIN identities) =>
        last[1].item = last[1].src

\* C9 witness: a blog record by an author the non-empty index does not hold
C9_Witness ==
    /\ LastIn("blog")
    /\ last[1].src.userId \notin DOMAIN identities
    /\ identities # EmptyDict

\* C10: every record taken from a user page is yielded, and a user record
\* that lacks userId, screenName or emailAddress does not end the run.
C10_EveryUserRecordYielded ==
    /\ nTaken.user = YieldedIn("user")
    /\ ~(phase = "user" /\ error = "KeyError")

\* ------------------------------------------------------------------------
\* Claims about failures, the order of requests and laziness
\* ------------------------------------------------------------------------
\* the exceptions of a failed request and of a body that does not parse
FailureErrors == {"TransportError", "JSONDecodeError", "ValueError"}

\* records the for loops have taken from the pages so far
TakenInAll == nTaken.user + nTaken.blog + nTaken.message

\* a step taken after a failure issues no request and leaves the items alone
AfterFailureNothing ==
    error \in FailureErrors =>
        (calls' = calls /\ reqLog' = reqLog /\ yieldLog' = yieldLog
            /\ last' = last)

Stage(c) ==
    CASE c.op = "count" /\ c.res = "user" -> 1
      [] c.op = "list" /\ c.res = "user" -> 2
      [] c.op = "count" /\ c.res = "blog" -> 3
      [] c.op = "list" /\ c.res = "blog" -> 4
      [] c.op = "categories" -> 5
      [] OTHER -> 6

\* the category ids the listing of the run answered
Listing ==
    LET at == {i \in 1..Len(calls) : calls[i].op = "categories"}
    IN  IF at = {} THEN <<>> ELSE calls[CHOOSE i \in at : TRUE].ids

\* message count requests among the first i requests
MessageCountsUpTo(i) ==
    Cardinality({j \in 1..i : calls[j].op = "count" /\ calls[j].res = "message"})

\* the request b may directly follow the request a
Follows(a, b) ==
    CASE Stage(a) = 1 -> Stage(b) = 2
      [] Stage(a) = 2 -> Stage(b) \in {2, 3}
      [] Stage(a) = 3 -> Stage(b) = 4
      [] Stage(a) = 4 -> Stage(b) \in {4, 5}
      [] Stage(a) = 5 -> Stage(b) = 6 /\ b.op = "count"
      [] OTHER ->
           /\ Stage(b) = 6
           /\ a.op = "count" => (b.op = "list" /\ b.cat = a.cat)
           /\ (a.op = "list" /\ b.op = "list") => b.cat = a.cat

\* the order of the requests logged for the run
CallsInOrder ==
    /\ calls # <<>> => Stage(calls[1]) = 1
    /\ \A i \in 1..(Len(calls) - 1) : Follows(calls[i], calls[i + 1])
    /\ Cardinality({i \in 1..Len(calls) : calls[i].op = "categories"}) <= 1
    /\ \A i \in 1..Len(calls) :
          (calls[i].op = "count" /\ calls[i].res = "message") =>
              /\ MessageCountsUpTo(i) <= Len(Listing)
              /\ calls[i].cat = Listing[MessageCountsUpTo(i)]

\* a further list request of a walk comes while the first list request of
\* that walk, for the same resource and category, is the last one logged
FurtherListStep ==
    (Len(reqLog') > Len(reqLog) /\ calls' = calls) =>
        /\ reqLog # <<>>
        /\ calls # <<>>
        /\ calls[Len(calls)].op = "list"
        /\ calls[Len(calls)].res = phase
        /\ calls[Len(calls)].cat = CurrentCat

\* C12: requests come in the order user count, user pages, blog count, blog
\* pages, one category listing, then per listed category, in listing order,
\* its message count and its message pages; message requests are made only
\* after the listing and only for its ids, and the listing is requested once.
C12_RequestOrder == []CallsInOrder /\ [][FurtherListStep]_vars

\* C12 witness: the pages of the second listed category are requested
C12_Witness ==
    /\ Len(Listing) = 2
    /\ calls[Len(calls)].op = "list"
    /\ calls[Len(calls)].cat = Listing[2]
    /\ Len(reqLog) = 2

\* ------------------------------------------------------------------------
\* End-to-end scenario: a group with ScenarioUsers users, no blog and one
\* category without messages, fetched with a page that holds all the users
\* ------------------------------------------------------------------------
\* user records that carry every key get_identity reads
WellFormedUsers == {u \in UserRecs : ~IdentityRaises(u)}

\* the answer of the scenario's remote to a count request
ScenarioCount ==
    [kind |-> "int", value |-> IF phase = "user" THEN ScenarioUsers ELSE 0]

\* its answers to the list request [0, max_results)
ScenarioLists ==
    IF phase = "user"
    THEN {Array(p) : p \in {q \in Pages("user", ScenarioUsers) :
                              \A i \in 1..Len(q) : q[i] \in WellFormedUsers}}
    ELSE {Array(<<>>)}

\* its category listing: one category
ScenarioCategories == {Array(<<[categoryId |-> c]>>) : c \in CategoryIds}

ScenarioInit ==
    /\ max_results \in {ScenarioUsers, ScenarioUsers + 1, MAX_RESULTS}
    /\ pc = "count"
    /\ phase = "user"
    /\ consumer = "waiting"
    /\ error = "none"
    /\ total = 0
    /\ start = 0
    /\ end = 0
    /\ queue = <<>>
    /\ identities = EmptyDict
    /\ entry = <<>>
    /\ mbcategory_ids = <<>>
    /\ last = <<>>
    /\ yieldLog = <<>>
    /\ nTaken = [user |-> 0, blog |-> 0, message |-> 0]
    /\ reqLog = <<>>
    /\ pageLog = <<>>
    /\ walkDone = FALSE
    /\ seenUsers = {}
    /\ calls = <<>>

ScenarioNext ==
    \/ NextItem
    \/ StopIterating
    \/ pc = "count" /\ Count(ScenarioCount)
    \/ pc = "first_list" /\ \E resp \in ScenarioLists : FirstList(resp)
    \/ ProcessRecord
    \/ PageExhausted
    \/ pc = "categories" /\ \E resp \in ScenarioCategories : Categories(resp)

ScenarioSpec == ScenarioInit /\ [][ScenarioNext]_vars

\* requests of the run made with op for the resource res
CallsOf(op, res) ==
    {i \in 1..Len(calls) : calls[i].op = op /\ calls[i].res = res}

\* C13: in the scenario the run never fails and, unless the consumer stops
\* iterating, goes on until it is complete; only user records are yielded,
\* each as it was fetched; the complete run has yielded exactly the
\* ScenarioUsers user items and has issued exactly one category listing and
\* exactly one message count, the one of the listed category.
C13_ScenarioRun ==
    /\ error = "none"
    /\ pc # "error"
    /\ pc = "done" \/ consumer = "stopped" \/ ENABLED ScenarioNext
    /\ \A i \in 1..Len(yieldLog) :
          yieldLog[i].phase = "user" /\ yieldLog[i].category = "user"
    /\ last # <<>> => last[1].item = last[1].src
    /\ Len(yieldLog) <= ScenarioUsers
    /\ pc = "done" =>
          /\ Len(yieldLog) = ScenarioUsers
          /\ nTaken = [user |-> ScenarioUsers, blog |-> 0, message |-> 0]
          /\ Cardinality(CallsOf("categories", "mbcategory")) = 1
          /\ Cardinality(CallsOf("count", "message")) = 1
          /\ Len(Listing) = 1
          /\ \A i \in CallsOf("count", "message") : calls[i].cat = Listing[1]

\* C13 witness: the scenario's run is complete, fetched with a page of
\* exactly ScenarioUsers records
C13_Witness ==
    /\ pc = "done"
    /\ max_results = ScenarioUsers
    /\ Len(yieldLog) = ScenarioUsers
    /\ CallsOf("count", "message") # {}

\* ------------------------------------------------------------------------
\* metadata_category on its own: items with any of the keys, with any value
\* ------------------------------------------------------------------------
CategoryKeys == {"entryId", "messageId", "userId"}

\* items to classify: every subset of the keys, each key with a value that
\* is false or true in Python
CategoryItems == UNION {[K -> {0, 42}] : K \in SUBSET CategoryKeys}

CategoryInit ==
    /\ queue \in {<<a>> : a \in CategoryItems}
                 \cup {<<a, b>> : a \in CategoryItems, b \in CategoryItems}
    /\ pc = "classify"
    /\ max_results = MAX_RESULTS
    /\ phase = "user"
    /\ consumer = "running"
    /\ error = "none"
    /\ total = 0
    /\ start = 0
    /\ end = 0
    /\ identities = EmptyDict
    /\ entry = <<>>
    /\ mbcategory_ids = <<>>
    /\ last = <<>>
    /\ yieldLog = <<>>
    /\ nTaken = [user |-> 0, blog |-> 0, message |-> 0]
    /\ reqLog = <<>>
    /\ pageLog = <<>>
    /\ walkDone = FALSE
    /\ seenUsers = {}
    /\ calls = <<>>

\* the next item is classified as it is handed out
Classify ==
    /\ pc = "classify"
    /\ queue # <<>>
    /\ Yield(Head(queue), Head(queue))
    /\ queue' = Tail(queue)
    /\ UNCHANGED <<max_results, phase, total, start, end, identities, entry,
                   mbcategory_ids, nTaken, reqLog, pageLog, walkDone,
                   seenUsers, calls>>

CategoryNext == Classify

CategorySpec == CategoryInit /\ [][CategoryNext]_vars

\* C14: the category of an item is blog when it has entryId, whether or not
\* it has messageId; else message when it has messageId; else user.  The
\* three cases look only at which of the two keys are present, so no value
\* and no other key of the item changes the category.
C14_CategoryPriority ==
    last # <<>> =>
        LET item == last[1].item
            category == yieldLog[Len(yieldLog)].category
        IN  /\ "entryId" \in DOMAIN item => category = "blog"
            /\ ("entryId" \notin DOMAIN item /\ "messageId" \in DOMAIN item)
                  => category = "message"
            /\ ("entryId" \notin DOMAIN item /\ "messageId" \notin DOMAIN item)
                  => category = "user"

\* C14 witness: an item with both entryId and messageId, entryId being 0,
\* is classified after another item
C14_Witness ==
    /\ Len(yieldLog) = 2
    /\ {"entryId", "messageId"} \subseteq DOMAIN last[1].item
    /\ last[1].item.entryId = 0
    /\ yieldLog[2].category = "blog"

\* a step that modifies the Identity Index is a step of the user phase, made
\* before any blog request, and keeps every key the index had
IndexStep ==
    identities' # identities =>
        /\ phase = "user"
        /\ CallsOf("count", "blog") = {}
        /\ DOMAIN identities \subseteq DOMAIN identities'

\* C15: the Identity Index is modified only in the user phase, where its key
\* set only grows; once the blog count is requested it is never modified.
C15_IndexOnlyInUserPhase == [][IndexStep]_vars

\* C15 witness: a run is complete that indexed two users and then yielded a
\* blog entry and a message
C15_Witness ==
    /\ pc = "done"
    /\ Cardinality(DOMAIN identities) = 2
    /\ YieldedIn("blog") > 0
    /\ YieldedIn("message") > 0

\* a request is issued only while the consumer waits for the item it asked
\* for, when every record of the pages fetched so far has been taken and
\* yielded
RequestStep ==
    (calls' # calls \/ Len(reqLog') > Len(reqLog)) =>
        /\ consumer = "running"
        /\ queue = <<>>
        /\ Len(yieldLog) = TakenInAll
        /\ Len(calls') <= Len(calls) + 1
        /\ Len(reqLog') <= Len(reqLog) + 1

\* a yield suspends the generator until the consumer asks again
YieldStep == yieldLog' # yieldLog => consumer' = "waiting"

\* once the consumer has stopped iterating nothing happens any more
StoppedStep ==
    consumer = "stopped" =>
        (consumer' = "stopped" /\ calls' = calls /\ reqLog' = reqLog
            /\ yieldLog' = yieldLog)

LazyStep == RequestStep /\ YieldStep /\ StoppedStep

\* C16: requests are issued one at a time and only on demand: while the
\* consumer waits for the next item, after every record of the pages fetched
\* before has been yielded; a yield hands control back to the consumer; and
\* after the consumer stops iterating no request is issued.
C16_LazySequential == [][LazyStep]_vars

\* C16 witness: the consumer stopped after an item of the second page of a
\* resource, at a point where the run would have gone on with requests
C16_Witness ==
    /\ consumer = "stopped"
    /\ Len(reqLog) = 2
    /\ Len(yieldLog) >= 2
    /\ pc = "for_entries"
    /\ queue = <<>>

\* the for loop of the user phase takes a record that has every identity key
TakesUser ==
    /\ phase = "user"
    /\ nTaken'.user = nTaken.user + 1
    /\ ~IdentityRaises(Head(queue))

\* taking a user record yields it and makes its identity the one of its
\* userId, whatever the index held for that userId; the other keys keep
\* their identity
UserIndexStep ==
    TakesUser =>
        LET rec == Head(queue) IN
        /\ error' = "none"
        /\ Len(yieldLog') = Len(yieldLog) + 1
        /\ last'[1].src = rec
        /\ identities' =
              [u \in DOMAIN identities \cup {rec.userId} |->
                  IF u = rec.userId THEN IdentityOf(rec) ELSE identities[u]]

\* C17: a user record whose userId is already in the Identity Index is
\* yielded like any other and its screenName/emailAddress replace the ones
\* held, so the index holds for each userId the identity of the last record
\* fetched with it; the index is left alone after the user phase, and a blog
\* entry of an indexed author is given the identity the index holds.
C17_LastWriteWins ==
    /\ [][UserIndexStep]_vars
    /\ [][phase # "user" => identities' = identities]_vars
    /\ [](LastIn("user") =>
             identities[last[1].src.userId] = IdentityOf(last[1].src))
    /\ []((LastIn("blog") /\ last[1].src.userId \in DOMAIN identities) =>
             IdentityOf(last[1].item) = identities[last[1].src.userId])

\* C17 witness: the user record just yielded replaced a different identity
\* held for its userId
C17_Witness ==
    /\ LastIn("user")
    /\ last[1].overwrote
    /\ Cardinality(DOMAIN identities) = 1
    /\ Len(yieldLog) = 2

\* ------------------------------------------------------------------------
\* Clean inputs: every request succeeds, every count is a number and every
\* page is a JSON array of records that carry the fields the run reads
\* ------------------------------------------------------------------------
\* the record has the fields fetch_items reads in the phase ph
HasRequired(ph, rec) ==
    IF ph = "user" THEN ~IdentityRaises(rec) ELSE "userId" \in DOMAIN rec

CleanLists(ph, s, e, tot) ==
    {Array(p) : p \in {q \in Pages(ph, ExpectedN(s, e, tot)) :
                          \A i \in 1..Len(q) : HasRequired(ph, q[i])}}

CleanCounts == {[kind |-> "int", value |-> n] : n \in 0..MaxTotal}

CleanCategories == {Array(l) : l \in CategoryLists}

CleanNext ==
    \/ NextItem
    \/ StopIterating
    \/ pc = "count" /\ \E resp \in CleanCounts : Count(resp)
    \/ pc = "first_list"
          /\ \E resp \in CleanLists(phase, 0, max_results, total) :
                FirstList(resp)
    \/ pc = "next_list"
          /\ \E resp \in CleanLists(phase, start, end, total) :
                NextList(resp)
    \/ ProcessRecord
    \/ PageExhausted
    \/ pc = "categories" /\ \E resp \in CleanCategories : Categories(resp)

CleanSpec == Init /\ [][CleanNext]_vars

\* C18: on clean inputs the run never ends with an error, every record of a
\* fetched page that the run has taken has been yielded as one item, and a
\* complete run has left no record of a fetched page behind.
C18_CleanRunYieldsAll ==
    /\ error = "none"
    /\ pc # "error"
    /\ Len(yieldLog) = TakenInAll
    /\ pc = "done" => queue = <<>>

====
